---------------------------- MODULE Spec2Model ----------------------------
(***************************************************************************)
(* A model of ipfx.py, the IP address calculator.                          *)
(*                                                                         *)
(* Text is modelled as a sequence of one-character strings, so that        *)
(* splitting, joining, reversing, parsing and formatting are computed the  *)
(* way the program computes them.  An integer wider than 31 bits (an IPv4  *)
(* or IPv6 address, a host count) is a big-endian sequence of 16-bit       *)
(* limbs: two limbs for IPv4, eight for IPv6.                              *)
(*                                                                         *)
(* A call that may raise returns a record: [ok |-> TRUE, ...] on return,   *)
(* [ok |-> FALSE, exc |-> <class>, ...] on raise.                          *)
(***************************************************************************)
EXTENDS Integers, Sequences, FiniteSets, TLC

VARIABLES
    args,        \* sys.argv[1:], a sequence of texts
    lines,       \* the texts input() has returned so far (interactive mode)
    pc,          \* where the driver is
    i,           \* index into args of the argument the for loop is at
    out,         \* everything printed to stdout, one record per line
    exit_code,   \* the process's exit status once pc = "exited"
    info,        \* the dictionary the last calculate_ipv4 / ipv6 returned
    analysed     \* history: every call of process_address with its outcome

vars == <<args, lines, pc, i, out, exit_code, info, analysed>>

---------------------------------------------------------------------------
(* Bounds of the model.                                                    *)

MaxArgs == 2

MaxLines == 2

---------------------------------------------------------------------------
(* Text: str.split, str.join, slicing [::-1], str.strip, str.lower,        *)
(* str.isdigit, int(), str(int), '%x'.                                     *)

DecChars == <<"0", "1", "2", "3", "4", "5", "6", "7", "8", "9">>

HexChars == <<"0", "1", "2", "3", "4", "5", "6", "7", "8", "9",
              "a", "b", "c", "d", "e", "f">>

UpperChars == <<"A", "B", "C", "D", "E", "F", "I", "Q", "T", "U", "X">>

LowerChars == <<"a", "b", "c", "d", "e", "f", "i", "q", "t", "u", "x">>

Whitespace == {" ", "\t"}

IndexOf(c, chars) ==
    IF \E k \in 1..Len(chars) : chars[k] = c
    THEN CHOOSE k \in 1..Len(chars) : chars[k] = c
    ELSE 0

LowerChar(c) ==
    IF IndexOf(c, UpperChars) > 0 THEN LowerChars[IndexOf(c, UpperChars)] ELSE c

RECURSIVE Lower(_)
Lower(s) ==
    IF s = <<>> THEN <<>> ELSE <<LowerChar(Head(s))>> \o Lower(Tail(s))

RECURSIVE Strip(_)
Strip(s) ==
    IF s = <<>> THEN s
    ELSE IF Head(s) \in Whitespace THEN Strip(Tail(s))
    ELSE IF s[Len(s)] \in Whitespace THEN Strip(SubSeq(s, 1, Len(s) - 1))
    ELSE s

RECURSIVE Reverse(_)
Reverse(s) ==
    IF s = <<>> THEN <<>> ELSE Reverse(Tail(s)) \o <<Head(s)>>

Contains(s, c) == \E k \in 1..Len(s) : s[k] = c

\* s.split(sep): the pieces of s between the occurrences of sep; never empty.
RECURSIVE Split(_, _)
Split(s, sep) ==
    IF ~Contains(s, sep) THEN <<s>>
    ELSE LET k == CHOOSE j \in 1..Len(s) :
                      s[j] = sep /\ \A m \in 1..(j - 1) : s[m] # sep
         IN  <<SubSeq(s, 1, k - 1)>> \o Split(SubSeq(s, k + 1, Len(s)), sep)

\* sep.join(parts)
RECURSIVE Join(_, _)
Join(parts, sep) ==
    IF parts = <<>> THEN <<>>
    ELSE IF Len(parts) = 1 THEN parts[1]
    ELSE parts[1] \o <<sep>> \o Join(Tail(parts), sep)

\* s.replace(c, ''), for a one-character c
RECURSIVE Remove(_, _)
Remove(s, c) ==
    IF s = <<>> THEN <<>>
    ELSE IF Head(s) = c THEN Remove(Tail(s), c)
    ELSE <<Head(s)>> \o Remove(Tail(s), c)

\* s.isascii() and s.isdigit(): not empty, and ASCII decimal digits only
IsDigits(s) == s # <<>> /\ \A k \in 1..Len(s) : IndexOf(s[k], DecChars) > 0

\* int(s, 10) of a text of decimal digits
RECURSIVE DecValue(_)
DecValue(s) ==
    IF s = <<>> THEN 0
    ELSE 10 * DecValue(SubSeq(s, 1, Len(s) - 1)) + (IndexOf(s[Len(s)], DecChars) - 1)

\* int(s, 16) of a text of hexadecimal digits of either case
RECURSIVE HexValue(_)
HexValue(s) ==
    IF s = <<>> THEN 0
    ELSE 16 * HexValue(SubSeq(s, 1, Len(s) - 1))
         + (IndexOf(LowerChar(s[Len(s)]), HexChars) - 1)

\* str(n) of an integer that fits one machine word of the model
RECURSIVE DecStr(_)
DecStr(n) ==
    IF n < 0 THEN <<"-">> \o DecStr(0 - n)
    ELSE IF n < 10 THEN <<DecChars[n + 1]>>
    ELSE DecStr(n \div 10) \o <<DecChars[(n % 10) + 1]>>

\* '%x' % n
RECURSIVE HexStr(_)
HexStr(n) ==
    IF n < 16 THEN <<HexChars[n + 1]>>
    ELSE HexStr(n \div 16) \o <<HexChars[(n % 16) + 1]>>

\* '%04x' % n, one 16-bit limb as four hexadecimal digits
Hex4(n) ==
    <<HexChars[(n \div 4096) + 1], HexChars[((n \div 256) % 16) + 1],
      HexChars[((n \div 16) % 16) + 1], HexChars[(n % 16) + 1]>>

\* str(b) of a bool
BoolStr(b) == IF b THEN <<"T", "r", "u", "e">> ELSE <<"F", "a", "l", "s", "e">>

---------------------------------------------------------------------------
(* Integers of 32 and 128 bits as big-endian sequences of 16-bit limbs,    *)
(* and Python's &, |, ^, >> on them.                                       *)

\* One bitwise operator on two naturals below 2^width; op is the operator on a bit.
RECURSIVE BitOp(_, _, _, _)
BitOp(op, a, b, width) ==
    IF width = 0 THEN 0
    ELSE 2 * BitOp(op, a \div 2, b \div 2, width - 1)
         + (CASE op = "and" -> IF a % 2 = 1 /\ b % 2 = 1 THEN 1 ELSE 0
              [] op = "or"  -> IF a % 2 = 1 \/ b % 2 = 1 THEN 1 ELSE 0
              [] op = "xor" -> IF a % 2 # b % 2 THEN 1 ELSE 0)

RECURSIVE LimbOp(_, _, _)
LimbOp(op, x, y) ==
    IF x = <<>> THEN <<>>
    ELSE <<BitOp(op, Head(x), Head(y), 16)>> \o LimbOp(op, Tail(x), Tail(y))

And(x, y) == LimbOp("and", x, y)

Or(x, y) == LimbOp("or", x, y)

Xor(x, y) == LimbOp("xor", x, y)

RECURSIVE Pow2(_)
Pow2(n) == IF n = 0 THEN 1 ELSE 2 * Pow2(n - 1)

RECURSIVE Zeroes(_)
Zeroes(n) == IF n = 0 THEN <<>> ELSE <<0>> \o Zeroes(n - 1)

\* _ALL_ONES: (2**IPV4LENGTH) - 1 with two limbs, (2**IPV6LENGTH) - 1 with eight
RECURSIVE AllOnes(_)
AllOnes(n) == IF n = 0 THEN <<>> ELSE <<65535>> \o AllOnes(n - 1)

\* x >> k
RECURSIVE Shr(_, _)
Shr(x, k) ==
    IF k >= 16 THEN Shr(<<0>> \o SubSeq(x, 1, Len(x) - 1), k - 16)
    ELSE IF k = 0 THEN x
    ELSE LET carry(j) == IF j = 1 THEN 0 ELSE (x[j - 1] % Pow2(k)) * Pow2(16 - k)
             RECURSIVE go(_)
             go(j) == IF j > Len(x) THEN <<>>
                      ELSE <<(x[j] \div Pow2(k)) + carry(j)>> \o go(j + 1)
         IN  go(1)

\* A sum of limbs brought back to limbs in 0..65535; the first limb keeps the
\* sign, so <<-1, 65535>> is the integer -1.
Normalise2(hi, lo) == <<hi + (lo \div 65536), lo % 65536>>

\* int(x) - int(y) + c for 32-bit x and y: Python's integers do not wrap
Diff2(x, y, c) == Normalise2(x[1] - y[1], x[2] - y[2] + c)

\* str(v) of a two-limb integer
RECURSIVE Dec2Str(_)
Dec2Str(v) ==
    IF v[1] < 0 THEN <<"-">> \o Dec2Str(Normalise2(0 - v[1], 0 - v[2]))
    ELSE LET t == (v[1] % 10) * 65536 + v[2]
             q == <<v[1] \div 10, t \div 10>>
         IN  IF q = <<0, 0>> THEN <<DecChars[(t % 10) + 1]>>
             ELSE Dec2Str(q) \o <<DecChars[(t % 10) + 1]>>

\* _count_righthand_zero_bits(number, bits)
RECURSIVE CountRighthandZeroBits(_, _)
CountRighthandZeroBits(x, bits) ==
    IF bits = 0 THEN 0
    ELSE IF x[Len(x)] % 2 = 1 THEN 0
    ELSE 1 + CountRighthandZeroBits(Shr(x, 1), bits - 1)

---------------------------------------------------------------------------
(* Exceptions.  ValueError is what the program catches; the address and    *)
(* netmask errors of the ipaddress library are subclasses of it.           *)

Raise(cls, msg, arg) == [ok |-> FALSE, exc |-> cls, msg |-> msg, arg |-> arg]

IsValueError(cls) == cls \in {"ValueError", "AddressValueError", "NetmaskValueError"}

IsAddressOrNetmaskError(cls) == cls \in {"AddressValueError", "NetmaskValueError"}

---------------------------------------------------------------------------
(* ipaddress, IPv4.                                                        *)

\* _BaseV4._parse_octet returns, i.e. does not raise ValueError
OctetParses(octet_str) ==
    /\ octet_str # <<>>
    /\ IsDigits(octet_str)
    /\ Len(octet_str) <= 3
    /\ ~(octet_str # <<"0">> /\ octet_str[1] = "0")
    /\ DecValue(octet_str) <= 255

\* _BaseV4._ip_int_from_string: int.from_bytes(map(_parse_octet, octets), 'big')
V4IntFromString(ip_str) ==
    LET parse(octets) ==
            IF Len(octets) # 4
            THEN Raise("AddressValueError", "Expected 4 octets", ip_str)
            ELSE IF \E k \in 1..4 : ~OctetParses(octets[k])
            THEN Raise("AddressValueError", "octet not permitted", ip_str)
            ELSE [ok |-> TRUE,
                  ip |-> <<256 * DecValue(octets[1]) + DecValue(octets[2]),
                           256 * DecValue(octets[3]) + DecValue(octets[4])>>]
    IN  IF ip_str = <<>>
        THEN Raise("AddressValueError", "Address cannot be empty", ip_str)
        ELSE parse(Split(ip_str, "."))

\* IPv4Address(address) of a text
IPv4Address(address) ==
    IF Contains(address, "/")
    THEN Raise("AddressValueError", "Unexpected '/'", address)
    ELSE V4IntFromString(address)

\* _BaseV4._string_from_ip_int: '.'.join(map(str, ip_int.to_bytes(4, 'big')))
V4Str(ip) ==
    Join(<<DecStr(ip[1] \div 256), DecStr(ip[1] % 256),
           DecStr(ip[2] \div 256), DecStr(ip[2] % 256)>>, ".")

\* _ip_int_from_prefix: _ALL_ONES ^ (_ALL_ONES >> prefixlen)
IpIntFromPrefix(prefixlen, n) == Xor(AllOnes(n), Shr(AllOnes(n), prefixlen))

\* _prefix_from_prefix_string, for a family of max_prefixlen bits
PrefixFromPrefixString(prefixlen_str, max_prefixlen) ==
    IF ~IsDigits(prefixlen_str)
    THEN Raise("NetmaskValueError", "is not a valid netmask", prefixlen_str)
    ELSE IF Len(prefixlen_str) > 9 \/ DecValue(prefixlen_str) > max_prefixlen
    THEN Raise("NetmaskValueError", "is not a valid netmask", prefixlen_str)
    ELSE [ok |-> TRUE, prefixlen |-> DecValue(prefixlen_str)]

\* _prefix_from_ip_int: the prefix length of a netmask, or ValueError when the
\* mask mixes zeroes and ones. leading_ones = ip_int >> trailing_zeroes is
\* compared with all_ones = (1 << prefixlen) - 1 = _ALL_ONES >> trailing_zeroes.
PrefixFromIpInt(ip_int, max_prefixlen) ==
    LET trailing_zeroes == CountRighthandZeroBits(ip_int, max_prefixlen)
    IN  IF Shr(ip_int, trailing_zeroes) # Shr(AllOnes(Len(ip_int)), trailing_zeroes)
        THEN Raise("ValueError", "Netmask pattern mixes zeroes & ones", <<>>)
        ELSE [ok |-> TRUE, prefixlen |-> max_prefixlen - trailing_zeroes]

\* _prefix_from_ip_string: a dotted-quad netmask, or else a hostmask
PrefixFromIpString(ip_str) ==
    LET choose(asNetmask, asHostmask) ==
            IF asNetmask.ok THEN asNetmask
            ELSE IF asHostmask.ok THEN asHostmask
            ELSE Raise("NetmaskValueError", "is not a valid netmask", ip_str)
        convert(parsed) ==
            IF ~parsed.ok
            THEN Raise("NetmaskValueError", "is not a valid netmask", ip_str)
            ELSE choose(PrefixFromIpInt(parsed.ip, 32),
                        PrefixFromIpInt(Xor(parsed.ip, AllOnes(2)), 32))
    IN  convert(V4IntFromString(ip_str))

\* _BaseV4._make_netmask(arg) of a text: (netmask, prefixlen)
V4MakeNetmask(arg) ==
    LET make(p) ==
            IF ~p.ok THEN p
            ELSE [ok |-> TRUE, prefixlen |-> p.prefixlen,
                  netmask |-> IpIntFromPrefix(p.prefixlen, 2)]
        fallback(asPrefix) ==
            IF asPrefix.ok THEN make(asPrefix) ELSE make(PrefixFromIpString(arg))
    IN  fallback(PrefixFromPrefixString(arg, 32))

\* _split_optional_netmask(address): str(address).split('/')
SplitOptionalNetmask(address) ==
    LET check(addr) ==
            IF Len(addr) > 2
            THEN Raise("AddressValueError", "Only one '/' permitted", address)
            ELSE [ok |-> TRUE, addr |-> addr]
    IN  check(Split(address, "/"))

\* IPv4Network(address, strict): the address, the mask, and the host bits
\* cleared unless strict, when host bits set raise ValueError.
IPv4NetworkOf(address, strict) ==
    LET build(addr, mask) ==
            IF ~addr.ok THEN addr
            ELSE IF ~mask.ok THEN mask
            ELSE IF And(addr.ip, mask.netmask) # addr.ip /\ strict
            THEN Raise("ValueError", "has host bits set", address)
            ELSE [ok |-> TRUE, version |-> 4,
                  network_address |-> And(addr.ip, mask.netmask),
                  netmask |-> mask.netmask,
                  prefixlen |-> mask.prefixlen]
        parse(split) ==
            IF ~split.ok THEN split
            ELSE build(IPv4Address(split.addr[1]),
                       IF Len(split.addr) > 1 THEN V4MakeNetmask(split.addr[2])
                       ELSE [ok |-> TRUE, prefixlen |-> 32, netmask |-> AllOnes(2)])
    IN  parse(SplitOptionalNetmask(address))

\* IPv4Interface(address): the address itself, with its network
IPv4Interface(address) ==
    LET build(addr, network) ==
            IF ~addr.ok THEN addr
            ELSE IF ~network.ok THEN network
            ELSE [ok |-> TRUE, version |-> 4, ip |-> addr.ip,
                  network |-> network, netmask |-> network.netmask,
                  prefixlen |-> network.prefixlen]
        parse(split) ==
            IF ~split.ok THEN split
            ELSE build(IPv4Address(split.addr[1]), IPv4NetworkOf(address, FALSE))
    IN  parse(SplitOptionalNetmask(address))

\* _BaseNetwork.hostmask: int(netmask) ^ _ALL_ONES
Hostmask(network) == Xor(network.netmask, AllOnes(Len(network.netmask)))

\* _BaseNetwork.broadcast_address: int(network_address) | int(hostmask)
BroadcastAddress(network) == Or(network.network_address, Hostmask(network))

\* _BaseNetwork.num_addresses: int(broadcast_address) - int(network_address) + 1
NumAddresses(network) == Diff2(BroadcastAddress(network), network.network_address, 1)

\* _BaseNetwork.__contains__(address): address._ip & netmask == network_address
InNetwork(ip, net) == And(ip, net.netmask) = net.network_address

Net4(o1, o2, o3, o4, prefixlen) ==
    [network_address |-> <<256 * o1 + o2, 256 * o3 + o4>>,
     netmask |-> IpIntFromPrefix(prefixlen, 2)]

\* _IPv4Constants._private_networks
V4PrivateNetworks ==
    {Net4(0, 0, 0, 0, 8), Net4(10, 0, 0, 0, 8), Net4(127, 0, 0, 0, 8),
     Net4(169, 254, 0, 0, 16), Net4(172, 16, 0, 0, 12), Net4(192, 0, 0, 0, 29),
     Net4(192, 0, 0, 170, 31), Net4(192, 0, 2, 0, 24), Net4(192, 168, 0, 0, 16),
     Net4(198, 18, 0, 0, 15), Net4(198, 51, 100, 0, 24), Net4(203, 0, 113, 0, 24),
     Net4(240, 0, 0, 0, 4), Net4(255, 255, 255, 255, 32)}

\* _BaseNetwork.is_private: both ends of the network in one private network
NetworkIsPrivate(network, private_networks) ==
    \E priv_network \in private_networks :
        /\ InNetwork(network.network_address, priv_network)
        /\ InNetwork(BroadcastAddress(network), priv_network)

\* IPv4Network.is_global: not within 100.64.0.0/10 and not private
V4NetworkIsGlobal(network) ==
    /\ ~(/\ InNetwork(network.network_address, Net4(100, 64, 0, 0, 10))
         /\ InNetwork(BroadcastAddress(network), Net4(100, 64, 0, 0, 10)))
    /\ ~NetworkIsPrivate(network, V4PrivateNetworks)

\* IPv4Interface.__str__: '%s/%d' % (_string_from_ip_int(_ip), _prefixlen)
V4InterfaceStr(interface) ==
    V4Str(interface.ip) \o <<"/">> \o DecStr(interface.prefixlen)

Text_in_addr_arpa ==
    <<".", "i", "n", "-", "a", "d", "d", "r", ".", "a", "r", "p", "a">>

\* _BaseV4._reverse_pointer of an interface: str(self) is the interface's text
V4ReversePointer(interface) ==
    Join(Reverse(Split(V4InterfaceStr(interface), ".")), ".") \o Text_in_addr_arpa

---------------------------------------------------------------------------
(* ipaddress, IPv6.                                                        *)

\* _BaseV6._split_scope_id: ip_str.partition('%'); no scope is the empty text
SplitScopeId(ip_str) ==
    LET check(addr, scope_id) ==
            IF scope_id = <<>> \/ Contains(scope_id, "%")
            THEN Raise("AddressValueError", "Invalid IPv6 address", ip_str)
            ELSE [ok |-> TRUE, addr |-> addr, scope_id |-> scope_id]
        partition(k) == check(SubSeq(ip_str, 1, k - 1), SubSeq(ip_str, k + 1, Len(ip_str)))
    IN  IF ~Contains(ip_str, "%") THEN [ok |-> TRUE, addr |-> ip_str, scope_id |-> <<>>]
        ELSE partition(CHOOSE j \in 1..Len(ip_str) :
                           ip_str[j] = "%" /\ \A m \in 1..(j - 1) : ip_str[m] # "%")

\* _BaseV6._parse_hextet returns, i.e. does not raise ValueError
HextetParses(hextet_str) ==
    /\ \A k \in 1..Len(hextet_str) : IndexOf(LowerChar(hextet_str[k]), HexChars) > 0
    /\ Len(hextet_str) <= 4
    /\ hextet_str # <<>>

RECURSIVE HextetValues(_)
HextetValues(parts) ==
    IF parts = <<>> THEN <<>>
    ELSE <<HexValue(Head(parts))>> \o HextetValues(Tail(parts))

\* the hextets before and after the '::', with the zeroes it stands for
V6IntFromHiLo(hi, lo, ip_str) ==
    IF 8 - (Len(hi) + Len(lo)) < 1
    THEN Raise("AddressValueError", "Expected at most 7 other parts with '::'", ip_str)
    ELSE IF \E k \in 1..Len(hi) : ~HextetParses(hi[k])
    THEN Raise("AddressValueError", "hextet not permitted", ip_str)
    ELSE IF \E k \in 1..Len(lo) : ~HextetParses(lo[k])
    THEN Raise("AddressValueError", "hextet not permitted", ip_str)
    ELSE [ok |-> TRUE,
          ip |-> HextetValues(hi) \o Zeroes(8 - (Len(hi) + Len(lo))) \o HextetValues(lo)]

\* _BaseV6._ip_int_from_string, after the IPv4-style suffix was converted
V6IntFromParts(parts, ip_str) ==
    LET n == Len(parts)
        skips == {k \in 2..(n - 1) : parts[k] = <<>>}
        skipped(skip_index, parts_hi, parts_lo) ==
            IF parts[1] = <<>> /\ parts_hi # 0
            THEN Raise("AddressValueError", "Leading ':' only permitted as part of '::'",
                       ip_str)
            ELSE IF parts[n] = <<>> /\ parts_lo # 0
            THEN Raise("AddressValueError", "Trailing ':' only permitted as part of '::'",
                       ip_str)
            ELSE V6IntFromHiLo(SubSeq(parts, 1, parts_hi),
                               SubSeq(parts, n - parts_lo + 1, n), ip_str)
        found(skip_index) ==
            skipped(skip_index,
                    IF parts[1] = <<>> THEN skip_index - 1 ELSE skip_index,
                    IF parts[n] = <<>> THEN n - skip_index - 2 ELSE n - skip_index - 1)
    IN  IF n > 9 THEN Raise("AddressValueError", "At most 8 colons permitted", ip_str)
        ELSE IF Cardinality(skips) > 1
        THEN Raise("AddressValueError", "At most one '::' permitted", ip_str)
        ELSE IF skips # {} THEN found((CHOOSE k \in skips : TRUE) - 1)
        ELSE IF n # 8
        THEN Raise("AddressValueError", "Exactly 8 parts expected without '::'", ip_str)
        ELSE IF \E k \in 1..n : ~HextetParses(parts[k])
        THEN Raise("AddressValueError", "hextet not permitted", ip_str)
        ELSE [ok |-> TRUE, ip |-> HextetValues(parts)]

\* _BaseV6._ip_int_from_string
V6IntFromString(ip_str) ==
    LET suffix(parts, ipv4) ==
            IF ~ipv4.ok THEN Raise("AddressValueError", ipv4.msg, ip_str)
            ELSE V6IntFromParts(SubSeq(parts, 1, Len(parts) - 1)
                                \o <<HexStr(ipv4.ip[1]), HexStr(ipv4.ip[2])>>, ip_str)
        parse(parts) ==
            IF Len(parts) < 3
            THEN Raise("AddressValueError", "At least 3 parts expected", ip_str)
            ELSE IF Contains(parts[Len(parts)], ".")
            THEN suffix(parts, IPv4Address(parts[Len(parts)]))
            ELSE V6IntFromParts(parts, ip_str)
    IN  IF ip_str = <<>>
        THEN Raise("AddressValueError", "Address cannot be empty", ip_str)
        ELSE parse(Split(ip_str, ":"))

\* IPv6Address(address) of a text
IPv6Address(address) ==
    LET build(split, parsed) ==
            IF ~parsed.ok THEN parsed
            ELSE [ok |-> TRUE, ip |-> parsed.ip, scope_id |-> split.scope_id]
        scoped(split) ==
            IF ~split.ok THEN split ELSE build(split, V6IntFromString(split.addr))
    IN  IF Contains(address, "/")
        THEN Raise("AddressValueError", "Unexpected '/'", address)
        ELSE scoped(SplitScopeId(address))

\* The longest run of "0" hextets: <<start, length>>, the first of the longest
RECURSIVE BestDoublecolon(_, _, _, _, _)
BestDoublecolon(hextets, index, run_start, run_len, best) ==
    IF index > Len(hextets) THEN best
    ELSE IF hextets[index] = <<"0">>
    THEN LET start == IF run_start = 0 THEN index ELSE run_start
         IN  BestDoublecolon(hextets, index + 1, start, run_len + 1,
                             IF run_len + 1 > best[2] THEN <<start, run_len + 1>>
                             ELSE best)
    ELSE BestDoublecolon(hextets, index + 1, 0, 0, best)

\* _BaseV6._compress_hextets
CompressHextets(hextets) ==
    LET compress(best, best_end) ==
            IF best[2] <= 1 THEN hextets
            ELSE (IF best[1] = 1 THEN <<<<>>>> ELSE <<>>)
                 \o SubSeq(hextets, 1, best[1] - 1)
                 \o <<<<>>>>
                 \o SubSeq(hextets, best_end, Len(hextets))
                 \o (IF best_end = Len(hextets) + 1 THEN <<<<>>>> ELSE <<>>)
        found(best) == compress(best, best[1] + best[2])
    IN  found(BestDoublecolon(hextets, 1, 0, 0, <<0, 0>>))

RECURSIVE HexStrs(_)
HexStrs(ip) == IF ip = <<>> THEN <<>> ELSE <<HexStr(Head(ip))>> \o HexStrs(Tail(ip))

RECURSIVE Hex4s(_)
Hex4s(ip) == IF ip = <<>> THEN <<>> ELSE <<Hex4(Head(ip))>> \o Hex4s(Tail(ip))

\* _BaseV6._string_from_ip_int
V6StringFromIpInt(ip) == Join(CompressHextets(HexStrs(ip)), ":")

\* IPv6Address.__str__: the scope id, when there is one, follows a '%'
V6Str(address) ==
    IF address.scope_id # <<>>
    THEN V6StringFromIpInt(address.ip) \o <<"%">> \o address.scope_id
    ELSE V6StringFromIpInt(address.ip)

\* _BaseV6._make_netmask(arg) of a text: (netmask, prefixlen)
V6MakeNetmask(arg) ==
    LET make(p) ==
            IF ~p.ok THEN p
            ELSE [ok |-> TRUE, prefixlen |-> p.prefixlen,
                  netmask |-> IpIntFromPrefix(p.prefixlen, 8)]
    IN  make(PrefixFromPrefixString(arg, 128))

\* IPv6Network(address, strict); clearing host bits makes a new address,
\* which has no scope id.
IPv6NetworkOf(address, strict) ==
    LET build(addr, mask) ==
            IF ~addr.ok THEN addr
            ELSE IF ~mask.ok THEN mask
            ELSE IF And(addr.ip, mask.netmask) # addr.ip /\ strict
            THEN Raise("ValueError", "has host bits set", address)
            ELSE [ok |-> TRUE, version |-> 6,
                  network_address |-> And(addr.ip, mask.netmask),
                  scope_id |-> IF And(addr.ip, mask.netmask) # addr.ip
                               THEN <<>> ELSE addr.scope_id,
                  netmask |-> mask.netmask,
                  prefixlen |-> mask.prefixlen]
        parse(split) ==
            IF ~split.ok THEN split
            ELSE build(IPv6Address(split.addr[1]),
                       IF Len(split.addr) > 1 THEN V6MakeNetmask(split.addr[2])
                       ELSE [ok |-> TRUE, prefixlen |-> 128, netmask |-> AllOnes(8)])
    IN  parse(SplitOptionalNetmask(address))

\* IPv6Interface(address)
IPv6Interface(address) ==
    LET build(addr, network) ==
            IF ~addr.ok THEN addr
            ELSE IF ~network.ok THEN network
            ELSE [ok |-> TRUE, version |-> 6, ip |-> addr.ip,
                  scope_id |-> addr.scope_id,
                  network |-> network, netmask |-> network.netmask,
                  prefixlen |-> network.prefixlen]
        parse(split) ==
            IF ~split.ok THEN split
            ELSE build(IPv6Address(split.addr[1]), IPv6NetworkOf(address, FALSE))
    IN  parse(SplitOptionalNetmask(address))

\* str(network.network_address)
V6NetworkAddressStr(network) ==
    V6Str([ip |-> network.network_address, scope_id |-> network.scope_id])

\* _BaseV6._explode_shorthand_ip_string of a network: the text of the network
\* address is parsed again, so a scope id in it raises.
V6NetworkExploded(network) ==
    LET explode(parsed) ==
            IF ~parsed.ok THEN parsed
            ELSE [ok |-> TRUE,
                  text |-> Join(Hex4s(parsed.ip), ":") \o <<"/">>
                           \o DecStr(network.prefixlen)]
    IN  explode(V6IntFromString(V6NetworkAddressStr(network)))

Text_ip6_arpa == <<".", "i", "p", "6", ".", "a", "r", "p", "a">>

RECURSIVE Singletons(_)
Singletons(s) == IF s = <<>> THEN <<>> ELSE <<<<Head(s)>>>> \o Singletons(Tail(s))

\* _BaseV6._reverse_pointer of a network:
\* '.'.join(self.exploded[::-1].replace(':', '')) + '.ip6.arpa'
V6ReversePointer(network) ==
    LET reverse(exploded) ==
            IF ~exploded.ok THEN exploded
            ELSE [ok |-> TRUE,
                  text |-> Join(Singletons(Remove(Reverse(exploded.text), ":")), ".")
                           \o Text_ip6_arpa]
    IN  reverse(V6NetworkExploded(network))

Net6(h1, h2, prefixlen) ==
    [network_address |-> <<h1, h2, 0, 0, 0, 0, 0, 0>>,
     netmask |-> IpIntFromPrefix(prefixlen, 8)]

\* _IPv6Constants._private_networks; 8193 = 0x2001, 3512 = 0xdb8, 64512 = 0xfc00,
\* 65152 = 0xfe80, 256 = 0x100
V6PrivateNetworks ==
    {[network_address |-> <<0, 0, 0, 0, 0, 0, 0, 1>>, netmask |-> AllOnes(8)],
     [network_address |-> <<0, 0, 0, 0, 0, 0, 0, 0>>, netmask |-> AllOnes(8)],
     [network_address |-> <<0, 0, 0, 0, 0, 65535, 0, 0>>,
      netmask |-> IpIntFromPrefix(96, 8)],
     Net6(256, 0, 64), Net6(8193, 0, 23), Net6(8193, 2, 48), Net6(8193, 3512, 32),
     Net6(8193, 16, 28), Net6(64512, 0, 7), Net6(65152, 0, 10)}

\* _BaseNetwork.is_link_local: both ends within fe80::/10
V6NetworkIsLinkLocal(network) ==
    /\ InNetwork(network.network_address, Net6(65152, 0, 10))
    /\ InNetwork(BroadcastAddress(network), Net6(65152, 0, 10))

\* _BaseNetwork.is_multicast: both ends within ff00::/8 (65280 = 0xff00)
V6NetworkIsMulticast(network) ==
    /\ InNetwork(network.network_address, Net6(65280, 0, 8))
    /\ InNetwork(BroadcastAddress(network), Net6(65280, 0, 8))

---------------------------------------------------------------------------
(* ipfx.py: IPCalculator.                                                  *)

\* ipaddress.ip_address(address): IPv4 first, then IPv6, else ValueError
IpAddress(address) ==
    LET second(v6) ==
            IF v6.ok THEN [ok |-> TRUE, version |-> 6]
            ELSE IF ~IsAddressOrNetmaskError(v6.exc) THEN v6
            ELSE Raise("ValueError", "does not appear to be an IPv4 or IPv6 address",
                       address)
        first(v4) ==
            IF v4.ok THEN [ok |-> TRUE, version |-> 4]
            ELSE IF ~IsAddressOrNetmaskError(v4.exc) THEN v4
            ELSE second(IPv6Address(address))
    IN  first(IPv4Address(address))

\* IPCalculator.get_address_version: 4, 6, or -1 when ip_address raises ValueError
get_address_version(address) ==
    LET try(addr) ==
            IF addr.ok THEN [ok |-> TRUE, version |-> addr.version]
            ELSE IF IsValueError(addr.exc) THEN [ok |-> TRUE, version |-> -1]
            ELSE addr
    IN  try(IpAddress(address))

\* host_count = network.num_addresses - 2
HostCount(network) == Diff2(NumAddresses(network), <<0, 0>>, -2)

\* IPCalculator.calculate_ipv4
calculate_ipv4(network, interface) ==
    [ok |-> TRUE,
     version |-> 4,
     ipaddress |-> V4Str(interface.ip),
     network_address |-> V4Str(network.network_address),
     broadcast_address |-> V4Str(BroadcastAddress(network)),
     host_count |-> HostCount(network),
     is_private |-> NetworkIsPrivate(network, V4PrivateNetworks),
     is_global |-> V4NetworkIsGlobal(network),
     is_network_address |-> network.network_address = interface.ip,
     is_broadcast_address |-> BroadcastAddress(network) = interface.ip,
     reverse |-> V4ReversePointer(interface),
     cidr_notation |-> V4Str(interface.ip) \o <<"/">> \o DecStr(network.prefixlen),
     cisco_notation |-> V4Str(interface.ip) \o <<" ">> \o V4Str(network.netmask),
     ubuntu_subnet |-> V4Str(network.network_address) \o <<"/">>
                       \o DecStr(network.prefixlen)]

\* IPCalculator.calculate_ipv6; network.reverse_pointer may raise
calculate_ipv6(network, interface) ==
    LET fields(reverse, network_address, is_private) ==
            IF ~reverse.ok THEN reverse
            ELSE [ok |-> TRUE,
                  version |-> 6,
                  network_address |-> network_address,
                  is_private |-> is_private,
                  is_global |-> ~is_private,
                  is_link_local |-> V6NetworkIsLinkLocal(network),
                  is_multicast |-> V6NetworkIsMulticast(network),
                  reverse |-> reverse.text,
                  cidr_notation |-> network_address \o <<"/">>
                                    \o DecStr(network.prefixlen),
                  ubuntu_notation |-> network_address \o <<"/">>
                                      \o DecStr(network.prefixlen)]
    IN  fields(V6ReversePointer(network), V6NetworkAddressStr(network),
               NetworkIsPrivate(network, V6PrivateNetworks))

---------------------------------------------------------------------------
(* ipfx.py: OutputFormatter.  A printed line is a record; the value of a   *)
(* field line is the text str() gives it.                                  *)

BannerWidth == 42

LabelWidth == 20

Rule == [line |-> "rule", char |-> "=", width |-> BannerWidth]

Field(key, value) ==
    [line |-> "field", key |-> key, width |-> LabelWidth, value |-> value]

\* OutputFormatter.print_ipv4_info
print_ipv4_info(d) ==
    <<Rule,
      [line |-> "title", text |-> "IPv4 Address Information", width |-> BannerWidth],
      Rule,
      Field("ipaddress", d.ipaddress),
      Field("network_address", d.network_address),
      Field("broadcast_address", d.broadcast_address),
      Field("host_count", Dec2Str(d.host_count)),
      Field("is_private", BoolStr(d.is_private)),
      Field("is_global", BoolStr(d.is_global)),
      Field("is_network_address", BoolStr(d.is_network_address)),
      Field("is_broadcast_address", BoolStr(d.is_broadcast_address)),
      Field("reverse", d.reverse),
      Field("cidr_notation", d.cidr_notation),
      Field("cisco_notation", d.cisco_notation),
      Field("ubuntu_subnet", d.ubuntu_subnet),
      Rule>>

\* OutputFormatter.print_ipv6_info
print_ipv6_info(d) ==
    <<Rule,
      [line |-> "title", text |-> "IPv6 Address Information", width |-> BannerWidth],
      Rule,
      Field("network_address", d.network_address),
      Field("is_private", BoolStr(d.is_private)),
      Field("is_global", BoolStr(d.is_global)),
      Field("is_link_local", BoolStr(d.is_link_local)),
      Field("is_multicast", BoolStr(d.is_multicast)),
      Field("reverse", d.reverse),
      Field("cidr_notation", d.cidr_notation),
      Field("ubuntu_notation", d.ubuntu_notation),
      Rule>>

\* OutputFormatter.print_error: one line, "Error: <message>"
print_error(message, detail) ==
    <<[line |-> "error", message |-> message, detail |-> detail]>>

\* OutputFormatter.print_help
print_help == <<[line |-> "help"]>>

---------------------------------------------------------------------------
(* ipfx.py: IPAddressProcessor.process_address.  The outcome is what it    *)
(* printed, what it returned (<<>> when it did not return), the exception  *)
(* that left it ("" when none did) and the dictionary it computed.         *)

NoInfo == [version |-> 0]

Returned(ret, printed, d) ==
    [ret |-> <<ret>>, printed |-> printed, raised |-> "", info |-> d]

Escaped(e, printed) ==
    [ret |-> <<>>, printed |-> printed, raised |-> e.exc, info |-> NoInfo]

\* ExceptValueError with "except" matching the class itself only, so that the
\* library's subclasses of ValueError escape
ExceptValueErrorExactClass(e) ==
    IF e.exc = "ValueError"
    THEN Returned(-1, print_error("Invalid network specification", <<e.msg, e.arg>>),
                  NoInfo)
    ELSE Escaped(e, <<>>)

\* except ValueError as e: print the error and return -1; anything else escapes
ExceptValueError(e) ==
    IF IsValueError(e.exc)
    THEN Returned(-1, print_error("Invalid network specification", <<e.msg, e.arg>>),
                  NoInfo)
    ELSE Escaped(e, <<>>)

\* ProcessIPv4 with strict=False left out of the IPv4Network call
ProcessIPv4Strict(address, prefix) ==
    LET print(d) == Returned(0, print_ipv4_info(d), d)
        try(network, interface) ==
            IF ~network.ok THEN ExceptValueError(network)
            ELSE IF ~interface.ok THEN ExceptValueError(interface)
            ELSE print(calculate_ipv4(network, interface))
    IN  try(IPv4NetworkOf(address \o <<"/">> \o prefix, TRUE),
            IPv4Interface(address \o <<"/">> \o prefix))

\* the body of the try statement for an IPv4 address
ProcessIPv4(address, prefix) ==
    LET print(d) == Returned(0, print_ipv4_info(d), d)
        try(network, interface) ==
            IF ~network.ok THEN ExceptValueError(network)
            ELSE IF ~interface.ok THEN ExceptValueError(interface)
            ELSE print(calculate_ipv4(network, interface))
    IN  try(IPv4NetworkOf(address \o <<"/">> \o prefix, FALSE),
            IPv4Interface(address \o <<"/">> \o prefix))

\* the body of the try statement for an IPv6 address
ProcessIPv6(address, prefix) ==
    LET print(d) ==
            IF ~d.ok THEN ExceptValueError(d) ELSE Returned(0, print_ipv6_info(d), d)
        try(network, interface) ==
            IF ~network.ok THEN ExceptValueError(network)
            ELSE IF ~interface.ok THEN ExceptValueError(interface)
            ELSE print(calculate_ipv6(network, interface))
    IN  try(IPv6NetworkOf(address \o <<"/">> \o prefix, FALSE),
            IPv6Interface(address \o <<"/">> \o prefix))

\* address, prefix = input_data.split('/') raises ValueError unless there are
\* exactly two pieces
process_address(input_data) ==
    LET dispatch(address, prefix, address_version) ==
            IF ~address_version.ok THEN Escaped(address_version, <<>>)
            ELSE IF address_version.version = -1
            THEN Returned(-1, print_error("Invalid address format.", <<>>), NoInfo)
            ELSE IF address_version.version = 4 THEN ProcessIPv4(address, prefix)
            ELSE IF address_version.version = 6 THEN ProcessIPv6(address, prefix)
            ELSE Returned(-1, print_error("Unknown address version.", <<>>), NoInfo)
        unpack(pieces) ==
            IF Len(pieces) # 2
            THEN Returned(-1, print_error(
                     "Invalid input format. Please use 'address/prefix'.", <<>>), NoInfo)
            ELSE dispatch(pieces[1], pieces[2], get_address_version(pieces[1]))
    IN  unpack(Split(input_data, "/"))

\* IPAddressProcessor.command_line_mode and main(input_address) with an argument
main(input_address) == process_address(input_address)

---------------------------------------------------------------------------
(* The inputs the model draws from.                                        *)

Dotted(o1, o2, o3, o4) == Join(<<DecStr(o1), DecStr(o2), DecStr(o3), DecStr(o4)>>, ".")

Cidr(address, prefix) == address \o <<"/">> \o prefix

Text_h == <<"-", "h">>

Text_help == <<"-", "-", "h", "e", "l", "p">>

Text_2001_db8__1 == <<"2", "0", "0", "1", ":", "d", "b", "8", ":", ":", "1">>

Text_not_an_ip == <<"x", "-", "i", "x">>

\* Arguments of a one-shot run: the help flags, addresses that analyse, and
\* one of each way an analysis fails.
ArgInputs ==
    {Text_h, Text_help,
     Cidr(Dotted(10, 0, 0, 5), DecStr(24)),
     Cidr(Text_2001_db8__1, DecStr(64)),
     Cidr(Text_not_an_ip, DecStr(24)),
     Dotted(1, 2, 3, 4),
     Cidr(Dotted(8, 8, 8, 8), DecStr(33)),
     <<"-", "H">>}

ArgLists == UNION {[1..n -> ArgInputs] : n \in 0..MaxArgs}

\* Lines of an interactive session: the exit commands in several spellings,
\* blank lines, addresses that analyse and addresses that do not.
LineInputs ==
    {<<"e", "x", "i", "t">>, <<" ", "Q", "u", "i", "t", "\t">>, <<"Q">>,
     <<>>, <<" ", " ">>,
     <<" ">> \o Cidr(Dotted(10, 0, 0, 5), DecStr(24)),
     Cidr(Text_not_an_ip, DecStr(24)),
     Cidr(Dotted(8, 8, 8, 8), DecStr(33)),
     <<"e", "x", "i", "t", "/", "q">>}

FirstOctets == {0, 8, 10, 100, 127, 169, 172, 192, 240, 255}

SecondOctets == {0, 16, 32, 64, 168, 254}

ThirdOctets == {0, 2}

FourthOctets == {0, 5, 255}

V4Addresses ==
    {Dotted(o1, o2, o3, o4) : o1 \in FirstOctets, o2 \in SecondOctets,
                              o3 \in ThirdOctets, o4 \in FourthOctets}

V4Prefixes == {DecStr(p) : p \in 0..32}

V6Addresses ==
    {Text_2001_db8__1,
     <<":", ":">>, <<":", ":", "1">>,
     <<"f", "e", "8", "0", ":", ":", "1">>,
     <<"F", "E", "8", "0", ":", ":">>,
     <<"f", "f", "0", "2", ":", ":", "1">>,
     <<"f", "c", "0", "0", ":", ":", "a", "b", "c", "d">>,
     <<":", ":", "f", "f", "f", "f", ":">> \o Dotted(10, 0, 0, 5),
     <<"1", ":", "2", ":", "3", ":", "4", ":", "5", ":", "6", ":", "7", ":", "8">>,
     <<"2", "0", "0", "1", ":", "d", "b", "8", ":", "0", ":", "0", ":", "1",
       ":", "0", ":", "0", ":", "1">>,
     <<"f", "e", "8", "0", ":", ":", "1", "%", "e">>,
     <<"f", "e", "8", "0", ":", ":", "%", "e">>}

V6Prefixes == {DecStr(p) : p \in {0, 1, 7, 10, 16, 32, 64, 96, 127, 128}}

\* Texts after the '/' that are not a prefix length of the family
BadPrefixes ==
    {<<>>, <<"a", "b", "c">>, <<"-", "1">>, <<"+", "2", "4">>, <<" ", "2", "4">>,
     DecStr(33), DecStr(129), DecStr(1000),
     Dotted(255, 255, 255, 0), Dotted(0, 0, 0, 255), Dotted(255, 255, 255, 255),
     Dotted(0, 0, 0, 0), Dotted(255, 0, 255, 0), Join(<<DecStr(255), DecStr(255), DecStr(0)>>, "."),
     <<"f", "f", "f", "f", ":", ":">>}

\* Texts that are no address of either family
BadAddresses ==
    {<<>>, Text_not_an_ip, Join(<<DecStr(1), DecStr(2), DecStr(3)>>, "."), Dotted(256, 1, 1, 1),
     <<"0", "1", ".", "2", ".", "3", ".", "4">>,
     <<" ">> \o Dotted(1, 2, 3, 4),
     <<":", ":", ":">>, <<"1", ":", ":", "2", ":", ":", "3">>, <<"1", ":", "2">>,
     <<"1", "2", "3", "4", "5", ":", ":">>, <<"g", ":", ":">>,
     <<"f", "e", "8", "0", ":", ":", "1", "%">>}

\* Inputs of the calculation: every sampled address with every prefix length
\* of its family and every bad prefix, and the malformed inputs.
CalcInputs ==
    {Cidr(a, p) : a \in V4Addresses, p \in V4Prefixes}
    \cup {Cidr(a, p) : a \in V6Addresses, p \in V6Prefixes}
    \cup {Cidr(a, p) : a \in {Dotted(10, 0, 0, 5), Dotted(192, 168, 2, 255),
                              Text_2001_db8__1, <<":", ":", "1">>},
                       p \in BadPrefixes \cup {<<"0", "2", "4">>}}
    \cup {Cidr(a, DecStr(24)) : a \in BadAddresses}
    \cup {Dotted(1, 2, 3, 4), <<>>, Cidr(Cidr(Dotted(1, 2, 3, 4), DecStr(24)), DecStr(3))}

---------------------------------------------------------------------------
(* ipfx.py: the driver.  pc is "start" at line 259, "for" at the head of   *)
(* the loop over the arguments, "input" where interactive_mode awaits a    *)
(* line, and "exited" after sys.exit or an uncaught exception.             *)

HelpFlags == {Text_h, Text_help}

\* sys.exit(code): Python passes code & 0xff to the operating system
ExitStatus(code) == code % 256

Init ==
    /\ args \in ArgLists
    /\ lines = <<>>
    /\ pc = "start"
    /\ i = 1
    /\ out = <<>>
    /\ exit_code = <<>>
    /\ info = NoInfo
    /\ analysed = <<>>

InitCalc ==
    /\ args \in {<<input>> : input \in CalcInputs}
    /\ lines = <<>>
    /\ pc = "start"
    /\ i = 1
    /\ out = <<>>
    /\ exit_code = <<>>
    /\ info = NoInfo
    /\ analysed = <<>>

\* if not args: exit_code = main(), which is interactive_mode()
StartInteractive ==
    /\ pc = "start"
    /\ Len(args) = 0
    /\ out' = out \o <<[line |-> "text", text |-> "IP Address Calculator - Interactive Mode"],
                       [line |-> "text", text |-> "Enter IP addresses in format 'address/prefix' or 'exit' to quit"],
                       [line |-> "dashes"]>>
    /\ pc' = "input"
    /\ UNCHANGED <<args, lines, i, exit_code, info, analysed>>

\* for arg in args
StartOneShot ==
    /\ pc = "start"
    /\ Len(args) > 0
    /\ pc' = "for"
    /\ i' = 1
    /\ UNCHANGED <<args, lines, out, exit_code, info, analysed>>

\* IsHelp that knows the short flag only
IsHelpShortOnly(arg) == arg = Text_h

\* if arg in ("-h", "--help"): print_help(); sys.exit(0)
IsHelp(arg) == arg \in HelpFlags

HelpArg ==
    /\ pc = "for"
    /\ i <= Len(args)
    /\ IsHelp(args[i])
    /\ out' = out \o print_help
    /\ exit_code' = <<0>>
    /\ pc' = "exited"
    /\ UNCHANGED <<args, lines, i, info, analysed>>

\* ProcessArg without "if exit_code != 0: sys.exit(exit_code)": the loop goes on
ProcessArgGoesOn ==
    LET processing == <<[line |-> "processing", arg |-> args[i]]>>
        step(r) ==
            /\ analysed' = Append(analysed, [input |-> args[i], ret |-> r.ret,
                                             raised |-> r.raised])
            /\ info' = r.info
            /\ out' = out \o processing \o r.printed \o <<[line |-> "blank"]>>
            /\ i' = i + 1
            /\ UNCHANGED <<pc, exit_code>>
    IN  /\ pc = "for"
        /\ i <= Len(args)
        /\ ~(args[i] \in HelpFlags)
        /\ step(main(args[i]))
        /\ UNCHANGED <<args, lines>>

\* print(f"Processing: {arg}"); exit_code = main(arg);
\* if exit_code != 0: sys.exit(exit_code); print()
ProcessArg ==
    LET processing == <<[line |-> "processing", arg |-> args[i]]>>
        step(r) ==
            /\ analysed' = Append(analysed, [input |-> args[i], ret |-> r.ret,
                                             raised |-> r.raised])
            /\ info' = r.info
            /\ IF r.raised # ""
               THEN /\ out' = out \o processing \o r.printed
                                  \o <<[line |-> "traceback", exc |-> r.raised]>>
                    /\ exit_code' = <<1>>
                    /\ pc' = "exited"
                    /\ i' = i
               ELSE IF r.ret[1] # 0
               THEN /\ out' = out \o processing \o r.printed
                    /\ exit_code' = <<ExitStatus(r.ret[1])>>
                    /\ pc' = "exited"
                    /\ i' = i
               ELSE /\ out' = out \o processing \o r.printed \o <<[line |-> "blank"]>>
                    /\ i' = i + 1
                    /\ UNCHANGED <<pc, exit_code>>
    IN  /\ pc = "for"
        /\ i <= Len(args)
        /\ ~IsHelp(args[i])
        /\ step(main(args[i]))
        /\ UNCHANGED <<args, lines>>

\* the loop is over: sys.exit(0)
ForEnd ==
    /\ pc = "for"
    /\ i > Len(args)
    /\ exit_code' = <<0>>
    /\ pc' = "exited"
    /\ UNCHANGED <<args, lines, i, out, info, analysed>>

\* user_input = input("address: ").strip()
UserInput(line) == Strip(line)

\* IsExitCommand without .lower()
IsExitCommandCaseSensitive(user_input) ==
    user_input \in {<<"e", "x", "i", "t">>, <<"q", "u", "i", "t">>, <<"q">>}

\* user_input.lower() in ('exit', 'quit', 'q')
IsExitCommand(user_input) ==
    Lower(user_input) \in {<<"e", "x", "i", "t">>, <<"q", "u", "i", "t">>, <<"q">>}

\* break; interactive_mode returns 0 and the driver passes it to sys.exit
ExitCommand ==
    /\ pc = "input"
    /\ Len(lines) < MaxLines
    /\ \E line \in LineInputs :
          /\ IsExitCommand(UserInput(line))
          /\ lines' = Append(lines, line)
    /\ exit_code' = <<0>>
    /\ pc' = "exited"
    /\ UNCHANGED <<args, i, out, info, analysed>>

\* if not user_input: continue
BlankLine ==
    /\ pc = "input"
    /\ Len(lines) < MaxLines
    /\ \E line \in LineInputs :
          /\ ~IsExitCommand(UserInput(line))
          /\ UserInput(line) = <<>>
          /\ lines' = Append(lines, line)
    /\ UNCHANGED <<args, pc, i, out, exit_code, info, analysed>>

\* AddressLine that ends the session with the value process_address returned
\* when it is not 0, as the one-shot loop does
AddressLineFatal ==
    LET step(user_input, r) ==
            /\ analysed' = Append(analysed, [input |-> user_input, ret |-> r.ret,
                                             raised |-> r.raised])
            /\ info' = r.info
            /\ IF r.raised # "" \/ r.ret # <<0>>
               THEN /\ out' = out \o r.printed
                    /\ exit_code' = <<255>>
                    /\ pc' = "exited"
               ELSE /\ out' = out \o r.printed \o <<[line |-> "blank"]>>
                    /\ UNCHANGED <<pc, exit_code>>
        read(line, user_input) ==
            /\ user_input # <<>>
            /\ Lower(user_input) \notin {<<"e", "x", "i", "t">>, <<"q", "u", "i", "t">>, <<"q">>}
            /\ lines' = Append(lines, line)
            /\ step(user_input, process_address(user_input))
    IN  /\ pc = "input"
        /\ Len(lines) < MaxLines
        /\ \E line \in LineInputs : read(line, Strip(line))
        /\ UNCHANGED <<args, i>>

\* self.process_address(user_input); print(): the value returned is dropped
AddressLine ==
    LET step(user_input, r) ==
            /\ analysed' = Append(analysed, [input |-> user_input, ret |-> r.ret,
                                             raised |-> r.raised])
            /\ info' = r.info
            /\ IF r.raised # ""
               THEN /\ out' = out \o r.printed
                                  \o <<[line |-> "traceback", exc |-> r.raised]>>
                    /\ exit_code' = <<1>>
                    /\ pc' = "exited"
               ELSE /\ out' = out \o r.printed \o <<[line |-> "blank"]>>
                    /\ UNCHANGED <<pc, exit_code>>
        read(line, user_input) ==
            /\ ~IsExitCommand(user_input)
            /\ user_input # <<>>
            /\ lines' = Append(lines, line)
            /\ step(user_input, process_address(user_input))
    IN  /\ pc = "input"
        /\ Len(lines) < MaxLines
        /\ \E line \in LineInputs : read(line, UserInput(line))
        /\ UNCHANGED <<args, i>>

\* except EOFError: break
EndOfInput ==
    /\ pc = "input"
    /\ exit_code' = <<0>>
    /\ pc' = "exited"
    /\ UNCHANGED <<args, lines, i, out, info, analysed>>

\* except KeyboardInterrupt: print("\n\nExiting..."); break
Interrupt ==
    /\ pc = "input"
    /\ out' = out \o <<[line |-> "blank"], [line |-> "blank"],
                       [line |-> "text", text |-> "Exiting..."]>>
    /\ exit_code' = <<0>>
    /\ pc' = "exited"
    /\ UNCHANGED <<args, lines, i, info, analysed>>

Next ==
    \/ StartInteractive
    \/ StartOneShot
    \/ HelpArg
    \/ ProcessArg
    \/ ForEnd
    \/ ExitCommand
    \/ BlankLine
    \/ AddressLine
    \/ EndOfInput
    \/ Interrupt

Spec == Init /\ [][Next]_vars

\* One-shot runs of one argument, over the inputs of the calculation
NextCalc ==
    \/ StartOneShot
    \/ ProcessArg
    \/ ForEnd

SpecCalc == InitCalc /\ [][NextCalc]_vars

---------------------------------------------------------------------------
(* What the claims speak of.  In a run of one argument the input is        *)
(* args[1]; once process_address has acted, analysed holds its outcome.    *)

Input == args[1]

InputPieces == Split(Input, "/")

HasActed == Len(analysed) = 1 /\ Len(args) = 1

Succeeded == HasActed /\ analysed[1].raised = "" /\ analysed[1].ret = <<0>>

\* the input is a sampled dotted quad, a '/', and a prefix length in 0..32
IsV4Input ==
    /\ Len(InputPieces) = 2
    /\ InputPieces[1] \in V4Addresses
    /\ InputPieces[2] \in V4Prefixes

InputOctet(k) == DecValue(Split(InputPieces[1], ".")[k])

InputPrefix == DecValue(InputPieces[2])

\* the lines printed by process_address: not the driver's own
AnalysisLines ==
    LET isOwn(l) == l.line \notin {"processing", "blank", "text", "dashes", "help"}
    IN  SelectSeq(out, isOwn)

FieldValue(key) ==
    LET isKey(l) == l.line = "field" /\ l.key = key
    IN  SelectSeq(out, isKey)

\* C1 -------------------------------------------------------------------

\* 2^(32-p) - 2 in limbs, for p in 0..30
TwoToThe32MinusPMinus2(p) ==
    IF p <= 15 THEN <<Pow2(16 - p) - 1, 65534>> ELSE <<0, Pow2(32 - p) - 2>>

\* C1: for every valid IPv4 input address/p, host_count is 2^(32-p) - 2 when
\* 0 <= p <= 30 and 0 when p is 31 or 32, and it is never negative.
C1_HostCount ==
    (IsV4Input /\ Succeeded) =>
        /\ info.host_count = (IF InputPrefix >= 31 THEN <<0, 0>>
                              ELSE TwoToThe32MinusPMinus2(InputPrefix))
        /\ info.host_count[1] >= 0

\* C2 -------------------------------------------------------------------

\* how many of the 8 bits of octet k the mask of prefix length p covers
MaskBits(k, p) ==
    IF p >= 8 * k THEN 8 ELSE IF p <= 8 * (k - 1) THEN 0 ELSE p - 8 * (k - 1)

\* octet AND mask octet: the low bits the mask does not cover are cleared
NetworkOctet(k) == InputOctet(k) - (InputOctet(k) % Pow2(8 - MaskBits(k, InputPrefix)))

\* network octet OR NOT mask octet: the low bits the mask does not cover are set
BroadcastOctet(k) == NetworkOctet(k) + Pow2(8 - MaskBits(k, InputPrefix)) - 1

\* C2: for every IPv4 dotted quad and every prefix in 0..32, host bits set or
\* not, process_address succeeds and reports network_address = address AND
\* mask, broadcast_address = network_address OR NOT mask, and the original
\* address as ipaddress.
C2_NetworkAndBroadcast ==
    (IsV4Input /\ HasActed) =>
        /\ Succeeded
        /\ info.version = 4
        /\ info.network_address =
               Dotted(NetworkOctet(1), NetworkOctet(2), NetworkOctet(3), NetworkOctet(4))
        /\ info.broadcast_address =
               Dotted(BroadcastOctet(1), BroadcastOctet(2), BroadcastOctet(3),
                      BroadcastOctet(4))
        /\ info.ipaddress = InputPieces[1]
        /\ FieldValue("network_address") = <<Field("network_address", info.network_address)>>
        /\ FieldValue("broadcast_address")
               = <<Field("broadcast_address", info.broadcast_address)>>
        /\ FieldValue("ipaddress") = <<Field("ipaddress", InputPieces[1])>>

\* 10.0.0.5/24, whose host bits are not zero, was analysed
C2_Witness ==
    /\ HasActed
    /\ Input = Cidr(Dotted(10, 0, 0, 5), DecStr(24))
    /\ info.version = 4
    /\ info.network_address = Dotted(10, 0, 0, 0)
    /\ info.broadcast_address = Dotted(10, 0, 0, 255)
    /\ info.ipaddress = Dotted(10, 0, 0, 5)

\* C5 -------------------------------------------------------------------

\* pointer without its last n characters, split into labels, labels reversed
LabelsReversed(pointer, n) ==
    Reverse(Split(SubSeq(pointer, 1, Len(pointer) - n), "."))

\* the 32 nibbles of an IPv6 address, most significant first, one per label
Nibbles(ip) == Singletons(Remove(Join(Hex4s(ip), ":"), ":"))

\* C5: for every valid input of either family, the reverse pointer without
\* its in-addr.arpa or ip6.arpa suffix, its labels reversed, is the original
\* input address (octets for IPv4, nibbles for IPv6), and no label holds any
\* text of the prefix length.
C5_ReverseRoundTrip ==
    Succeeded =>
        /\ ~Contains(info.reverse, "/")
        /\ info.version = 4 =>
               Join(LabelsReversed(info.reverse, Len(Text_in_addr_arpa)), ".")
                   = InputPieces[1]
        /\ info.version = 6 =>
               LabelsReversed(info.reverse, Len(Text_ip6_arpa))
                   = Nibbles(IPv6Address(InputPieces[1]).ip)

\* C6 -------------------------------------------------------------------

\* the text is a non-negative decimal integer no greater than max
IsPrefixLength(text, max) ==
    /\ text # <<>>
    /\ \A k \in 1..Len(text) : text[k] \in {"0", "1", "2", "3", "4", "5", "6", "7", "8", "9"}
    /\ Len(text) <= 4
    /\ DecValue(text) <= max

InputFamily ==
    IF Len(InputPieces) # 2 THEN 0
    ELSE IF IPv4Address(InputPieces[1]).ok THEN 4
    ELSE IF IPv6Address(InputPieces[1]).ok THEN 6
    ELSE 0

\* process_address returned the error value and printed no information block
Failed ==
    /\ HasActed
    /\ analysed[1].raised = ""
    /\ analysed[1].ret = <<-1>>
    /\ \A k \in 1..Len(out) : out[k].line \notin {"rule", "title", "field"}

\* C6: with a valid IPv4 or IPv6 address before the '/', process_address
\* fails whenever the text after it is not a non-negative decimal integer
\* or is an integer outside 0..32 (IPv4) or 0..128 (IPv6).
C6_BadPrefixFails ==
    /\ (HasActed /\ InputFamily = 4 /\ ~IsPrefixLength(InputPieces[2], 32)) => Failed
    /\ (HasActed /\ InputFamily = 6 /\ ~IsPrefixLength(InputPieces[2], 128)) => Failed

\* C7 -------------------------------------------------------------------

IsInformationBlock(printed) ==
    /\ Len(printed) \in {4 + 12, 4 + 8}
    /\ printed[1].line = "rule"
    /\ printed[2].line = "title"
    /\ printed[3].line = "rule"
    /\ \A k \in 4..(Len(printed) - 1) : printed[k].line = "field"
    /\ printed[Len(printed)].line = "rule"

\* C7: for every input, process_address either prints one complete
\* information block and returns 0, or prints exactly one error line, no
\* information block, and returns -1; no exception leaves it.
C7_TwoOutcomes ==
    HasActed =>
        /\ analysed[1].raised = ""
        /\ \/ /\ analysed[1].ret = <<0>>
              /\ IsInformationBlock(AnalysisLines)
           \/ /\ analysed[1].ret = <<-1>>
              /\ Len(AnalysisLines) = 1
              /\ AnalysisLines[1].line = "error"

\* an IPv6 network that keeps its scope id fails when the pointer is computed:
\* the error is printed, nothing of the block is
C7_Witness ==
    /\ HasActed
    /\ Input = Cidr(<<"f", "e", "8", "0", ":", ":", "%", "e">>, DecStr(64))
    /\ analysed[1].ret = <<-1>>
    /\ Len(AnalysisLines) = 1
    /\ AnalysisLines[1].message = "Invalid network specification"

\* C10 ------------------------------------------------------------------

\* the address lies in 10.0.0.0/8, 172.16.0.0/12, 192.168.0.0/16,
\* 127.0.0.0/8 or 169.254.0.0/16
InListedRanges ==
    \/ InputOctet(1) = 10
    \/ InputOctet(1) = 172 /\ InputOctet(2) >= 16 /\ InputOctet(2) <= 31
    \/ InputOctet(1) = 192 /\ InputOctet(2) = 168
    \/ InputOctet(1) = 127
    \/ InputOctet(1) = 169 /\ InputOctet(2) = 254

\* C10: for every valid IPv4 input with any prefix in 0..32, is_private is
\* true exactly when the input address lies in one of the listed ranges, and
\* is_private and is_global are never both true.
C10_IsPrivate ==
    (IsV4Input /\ Succeeded) =>
        /\ info.is_private = InListedRanges
        /\ ~(info.is_private /\ info.is_global)

---------------------------------------------------------------------------
(* The driver's claims.                                                    *)

IsOneShot == Len(args) > 0

IsInteractive == Len(args) = 0

HelpTexts == {<<"-", "h">>, <<"-", "-", "h", "e", "l", "p">>}

HelpPositions == {k \in 1..Len(args) : args[k] \in HelpTexts}

Count(kind) == Cardinality({k \in 1..Len(out) : out[k].line = kind})

AllSucceeded == \A k \in 1..Len(analysed) : analysed[k].ret = <<0>>

InOrder ==
    /\ Len(analysed) <= Len(args)
    /\ \A k \in 1..Len(analysed) : analysed[k].input = args[k]

\* C3 -------------------------------------------------------------------

\* C3: in a one-shot run without a help flag the arguments are analysed left
\* to right; at the first whose analysis fails the error is printed and the
\* program exits with a status that is not 0, with nothing analysed or
\* printed for a later argument; it exits with 0 only if every argument was
\* analysed successfully.
C3_AbortOnFirstFailure ==
    (IsOneShot /\ HelpPositions = {}) =>
        /\ InOrder
        /\ \A k \in 1..Len(analysed) :
               analysed[k].ret # <<0>> =>
                   /\ k = Len(analysed)
                   /\ pc = "exited"
                   /\ exit_code # <<>>
                   /\ exit_code # <<0>>
                   /\ Count("error") = 1
                   /\ out[Len(out)].line = "error"
                   /\ Count("processing") = k
        /\ (pc = "exited" /\ exit_code = <<0>>) =>
               (Len(analysed) = Len(args) /\ AllSucceeded)

\* two arguments, the first fails: exit status 255, the second never analysed
C3_Witness ==
    /\ Len(args) = 2
    /\ HelpPositions = {}
    /\ Len(analysed) = 1
    /\ analysed[1].ret = <<-1>>
    /\ pc = "exited"
    /\ exit_code = <<255>>

\* C4 -------------------------------------------------------------------

C4_ExitsWithZero == (IsInteractive /\ pc = "exited") => exit_code = <<0>>

C4_FailureGoesOn ==
    (/\ IsInteractive
     /\ Len(analysed') = Len(analysed) + 1
     /\ analysed'[Len(analysed')].ret # <<0>>)
        => (pc' = "input" /\ exit_code' = <<>>)

\* C4: in interactive mode a line whose analysis fails never ends the
\* session, the driver awaits the next line; and whenever the session ends
\* the exit status is 0, however many lines failed.
C4_InteractiveErrorsNotFatal == [][C4_FailureGoesOn]_vars /\ []C4_ExitsWithZero

\* a session of two lines, both failed, has ended
C4_Witness ==
    /\ IsInteractive
    /\ Len(analysed) = 2
    /\ analysed[1].ret = <<-1>>
    /\ analysed[2].ret = <<-1>>
    /\ pc = "exited"
    /\ exit_code = <<0>>

\* C8 -------------------------------------------------------------------

FirstHelp == CHOOSE h \in HelpPositions : \A k \in HelpPositions : h <= k

\* C8: in a one-shot run, a help flag that is reached (every earlier argument
\* was analysed successfully) makes the program print the help and exit with
\* status 0; neither the flag nor any later argument is analysed, wherever in
\* the list the flag is.
C8_HelpStops ==
    (IsOneShot /\ HelpPositions # {}) =>
        /\ InOrder
        /\ Len(analysed) < FirstHelp
        /\ (pc = "exited" /\ Len(analysed) = FirstHelp - 1 /\ AllSucceeded) =>
               /\ exit_code = <<0>>
               /\ Count("help") = 1
               /\ out[Len(out)].line = "help"
               /\ Count("processing") = FirstHelp - 1
        /\ Count("help") > 0 => (pc = "exited" /\ exit_code = <<0>>)

\* the help flag is the second argument, and the first was analysed
C8_Witness ==
    /\ Len(args) = 2
    /\ args[2] = <<"-", "-", "h", "e", "l", "p">>
    /\ Len(analysed) = 1
    /\ pc = "exited"
    /\ exit_code = <<0>>
    /\ out[Len(out)].line = "help"

\* C9 -------------------------------------------------------------------

\* the lines of LineInputs that, trimmed and in lower case, are exit, quit or q
ExitTexts == {<<"e", "x", "i", "t">>, <<" ", "Q", "u", "i", "t", "\t">>, <<"Q">>}

\* the lines of LineInputs that are blank once trimmed
BlankTexts == {<<>>, <<" ", " ">>}

C9_Sessions ==
    IsInteractive =>
        /\ \A k \in 1..Len(lines) :
               lines[k] \in ExitTexts =>
                   (k = Len(lines) /\ pc = "exited" /\ exit_code = <<0>>)
        /\ Len(analysed)
               = Cardinality({k \in 1..Len(lines) :
                                 lines[k] \notin (ExitTexts \cup BlankTexts)})
        /\ Count("error") + Count("title") = Len(analysed)
        /\ (lines # <<>> /\ lines[1] \in ExitTexts) =>
               (analysed = <<>> /\ AnalysisLines = <<>>)

C9_Lines ==
    (IsInteractive /\ Len(lines') = Len(lines) + 1) =>
        /\ lines'[Len(lines')] \in ExitTexts =>
               /\ pc' = "exited"
               /\ exit_code' = <<0>>
               /\ out' = out
               /\ analysed' = analysed
        /\ lines'[Len(lines')] \in BlankTexts =>
               /\ pc' = "input"
               /\ out' = out
               /\ analysed' = analysed

\* C9: in interactive mode a line that, trimmed, is exit, quit or q in any
\* case ends the session with status 0, with no analysis of it and no later
\* line read; a blank line gives no analysis and no error output and leaves
\* the session awaiting the next line; a session whose first line is exit
\* gives no analysis output at all.
C9_ExitAndBlankLines == [][C9_Lines]_vars /\ []C9_Sessions

\* a blank line and then Q: the session has ended, nothing was analysed
C9_Witness ==
    /\ IsInteractive
    /\ lines = <<<<" ", " ">>, <<"Q">>>>
    /\ pc = "exited"
    /\ exit_code = <<0>>
    /\ analysed = <<>>
    /\ AnalysisLines = <<>>

=============================================================================
